---- MODULE Spec2Model ----
(***************************************************************************)
(* The lexical and syntactic front end of raze-lang:                       *)
(*   crates/frontend/src/lexer.rs   Lexer::tokenize                        *)
(*   crates/frontend/src/parser.rs  Parser::parse                          *)
(*   crates/frontend/src/expr.rs    the expression nodes                   *)
(*                                                                         *)
(* A character is a one-character string; a source text, a token text and  *)
(* a name are sequences of characters.  Offsets are 0-based as in the      *)
(* source, so the character at offset i of code is code[i + 1].            *)
(***************************************************************************)
EXTENDS Integers, Sequences, FiniteSets, TLC

VARIABLES
    input,         \* the pieces the source text was assembled from
    lexer,         \* struct Lexer: code, tokens, start, current
    lex_errors,    \* tokenize's local `errors`
    lexed,         \* the value tokenize returned
    parser,        \* struct Parser: tokens, start_loc, current
    stmts,         \* parse's local `stmts`
    parse_errors,  \* parse's local `errors`
    parsed,        \* the value parse returned
    pc             \* "tokenize", "tokenized", "parse", "parsed"

vars == <<input, lexer, lex_errors, lexed, parser, stmts, parse_errors, parsed, pc>>

(***************************************************************************)
(* Bounds of the explored inputs.                                          *)
(***************************************************************************)
MaxLen == 4

MaxOps == 3

MaxTargets == 2

MaxLines == 2

\* tokenize calls made on one Lexer
MaxCalls == 2

(***************************************************************************)
(* Characters.                                                             *)
(***************************************************************************)
\* at() and next() answer '\0' past the end of the code.
NUL == "NUL"

\* U+00B2 SUPERSCRIPT TWO: char::is_numeric accepts it, str::parse rejects it.
SUP2 == "SUP2"

AsciiDigits == {"0", "1", "2", "3", "4", "5", "6", "7", "8", "9"}

is_numeric(c) == c \in AsciiDigits \cup {SUP2}

is_alphabetic(c) ==
    c \in {"a", "b", "c", "d", "e", "f", "g", "h", "i", "j", "k", "l", "m",
           "n", "o", "p", "q", "r", "s", "t", "u", "v", "w", "x", "y", "z"}

is_alphanumeric(c) == is_alphabetic(c) \/ is_numeric(c)

Loc_new(s, e) == [start |-> s, end |-> e]

NoValue == [none |-> TRUE]

(***************************************************************************)
(* Lexer                                                                   *)
(***************************************************************************)
keywords ==
    (<<"v", "a", "r">> :> "Var")
    @@ (<<"c", "o", "n", "s", "t">> :> "Const")
    @@ (<<"t", "r", "u", "e">> :> "True")
    @@ (<<"f", "a", "l", "s", "e">> :> "False")
    @@ (<<"s", "t", "r", "u", "c", "t">> :> "Struct")
    @@ (<<"s", "e", "l", "f">> :> "SelfKw")
    @@ (<<"f", "n">> :> "Fn")
    @@ (<<"r", "e", "t", "u", "r", "n">> :> "Return")
    @@ (<<"i", "f">> :> "If")
    @@ (<<"e", "l", "s", "e">> :> "Else")
    @@ (<<"a", "n", "d">> :> "And")
    @@ (<<"o", "r">> :> "Or")
    @@ (<<"f", "o", "r">> :> "For")
    @@ (<<"w", "h", "i", "l", "e">> :> "While")
    @@ (<<"i", "n">> :> "In")
    @@ (<<"n", "u", "l", "l">> :> "Null")
    @@ (<<"p", "r", "i", "n", "t">> :> "Print")

Lexer_default == [code |-> <<>>, tokens |-> <<>>, start |-> 0, current |-> 0]

Lexer_eof(l) == l.current >= Len(l.code)

Lexer_at(l) == IF ~Lexer_eof(l) THEN l.code[l.current + 1] ELSE NUL

Lexer_next(l) ==
    IF l.current < Len(l.code) - 1 THEN l.code[l.current + 2] ELSE NUL

Lexer_prev(l) == l.code[l.current]

is_skippable(l) == Lexer_at(l) \in {" ", "\t", "\r"}

\* eat() advances; the character it returns is Lexer_prev of the result.
Lexer_eat(l) == [l EXCEPT !.current = @ + 1]

\* is_at(expected) answers hit and advances only on a hit.
Lexer_is_at(l, expected) ==
    IF Lexer_eof(l) THEN [hit |-> FALSE, l |-> l]
    ELSE IF Lexer_at(l) # expected THEN [hit |-> FALSE, l |-> l]
    ELSE [hit |-> TRUE, l |-> [l EXCEPT !.current = @ + 1]]

Lexer_get_loc(l) == Loc_new(l.start, l.current)

add_token(l, kind) ==
    [l EXCEPT !.tokens = Append(@, [kind |-> kind,
                                    value |-> SubSeq(l.code, l.start + 1, l.current),
                                    loc |-> Lexer_get_loc(l)])]

add_value_token(l, kind, value) ==
    [l EXCEPT !.tokens = Append(@, [kind |-> kind,
                                    value |-> value,
                                    loc |-> Lexer_get_loc(l)])]

RECURSIVE synchronize_skip(_)
synchronize_skip(l) ==
    IF ~is_skippable(l) /\ Lexer_at(l) # "\n" /\ ~Lexer_eof(l)
    THEN synchronize_skip([l EXCEPT !.current = @ + 1])
    ELSE l

\* A synchronize that rewinds and skips nothing.
Lexer_synchronize_rewind_only(l) == [l EXCEPT !.current = l.start]

Lexer_synchronize(l) == synchronize_skip([l EXCEPT !.current = l.start])

\* The error value is built by the caller before trigger_error runs; its
\* location is read after synchronize moved the cursor.
Lexer_trigger_error(l, err, arg) ==
    LET s == Lexer_synchronize(l)
    IN  [l |-> s, e |-> <<[err |-> err, arg |-> arg, loc |-> Lexer_get_loc(s)]>>]

LexOk(l) == [l |-> l, e |-> <<>>]

RECURSIVE lex_comment(_)
lex_comment(l) ==
    IF ~Lexer_eof(l) /\ Lexer_at(l) # "\n" THEN lex_comment(Lexer_eat(l)) ELSE l

RECURSIVE lex_string_scan(_)
lex_string_scan(l) ==
    IF ~Lexer_eof(l) /\ Lexer_at(l) # "\""
    THEN IF Lexer_at(l) = "\n"
         THEN lex_string_scan(add_token(Lexer_eat(l), "NewLine"))
         ELSE lex_string_scan(Lexer_eat(l))
    ELSE l

lex_string(l0) ==
    LET l == lex_string_scan(l0)
    IN  IF Lexer_eof(l)
        THEN Lexer_trigger_error(l, "StringNeverClosed", NoValue)
        ELSE LET value == SubSeq(l.code, l.start + 2, l.current)
             IN  LexOk(add_value_token(Lexer_eat(l), "String", value))

RECURSIVE eat_numeric(_)
eat_numeric(l) ==
    IF is_numeric(Lexer_at(l)) THEN eat_numeric(Lexer_eat(l)) ELSE l

lex_number_no_range(l0) ==
    LET l == eat_numeric(l0)
    IN  IF Lexer_at(l) = "."
        THEN LET d == Lexer_eat(l)
             IN  IF Lexer_eof(d) \/ is_skippable(d) \/ Lexer_at(d) = "\n"
                 THEN LexOk(add_token(d, "Real"))
                 ELSE IF ~is_numeric(Lexer_at(d))
                 THEN Lexer_trigger_error(d, "NonNumericDecimal", Lexer_at(d))
                 ELSE LET f == eat_numeric(d)
                      IN  IF ~Lexer_eof(f) /\ ~is_skippable(f) /\ Lexer_at(f) # "\n"
                          THEN Lexer_trigger_error(f, "NoSpaceAfterNumber", Lexer_at(f))
                          ELSE LexOk(add_token(f, "Real"))
        ELSE LexOk(add_token(l, "Int"))

lex_number(l0) ==
    LET l == eat_numeric(l0)
    IN  IF Lexer_at(l) = "."
        THEN IF Lexer_next(l) = "."
             THEN LexOk(add_token(Lexer_eat(Lexer_eat(add_token(l, "Int"))), "DotDot"))
             ELSE LET d == Lexer_eat(l)
                  IN  IF Lexer_eof(d) \/ is_skippable(d) \/ Lexer_at(d) = "\n"
                      THEN LexOk(add_token(d, "Real"))
                      ELSE IF ~is_numeric(Lexer_at(d))
                      THEN Lexer_trigger_error(d, "NonNumericDecimal", Lexer_at(d))
                      ELSE LET f == eat_numeric(d)
                           IN  IF ~Lexer_eof(f) /\ ~is_skippable(f) /\ Lexer_at(f) # "\n"
                               THEN Lexer_trigger_error(f, "NoSpaceAfterNumber", Lexer_at(f))
                               ELSE LexOk(add_token(f, "Real"))
        ELSE LexOk(add_token(l, "Int"))

RECURSIVE eat_identifier(_)
eat_identifier(l) ==
    IF is_alphanumeric(Lexer_at(l)) \/ Lexer_at(l) = "_"
    THEN eat_identifier(Lexer_eat(l))
    ELSE l

lex_identifier(l0) ==
    LET l == eat_identifier(l0)
        ident == SubSeq(l.code, l.start + 1, l.current)
    IN  IF ident \in DOMAIN keywords
        THEN LexOk(add_token(l, keywords[ident]))
        ELSE LexOk(add_value_token(l, "Identifier", ident))

SingleCharKind ==
    ("(" :> "OpenParen") @@ (")" :> "CloseParen") @@ ("{" :> "OpenBrace")
    @@ ("}" :> "CloseBrace") @@ ("," :> "Comma") @@ ("-" :> "Minus")
    @@ ("+" :> "Plus") @@ ("*" :> "Star") @@ ("%" :> "Modulo")
    @@ ("\n" :> "NewLine")

OneCharKind ==
    ("!" :> "Bang") @@ ("=" :> "Equal") @@ ("<" :> "Less") @@ (">" :> "Greater")

TwoCharKind ==
    ("!" :> "BangEqual") @@ ("=" :> "EqualEqual") @@ ("<" :> "LessEqual")
    @@ (">" :> "GreaterEqual")

\* The head of one iteration of tokenize's loop: start = current; c = eat().
scan_begin(l) == Lexer_eat([l EXCEPT !.start = l.current])

eof_token_at_cursor(l) ==
    [kind |-> "Eof", value |-> <<"e", "o", "f">>, loc |-> Lexer_get_loc(l)]

\* The token pushed after the loop.
eof_token(l) ==
    [kind |-> "Eof", value |-> <<"e", "o", "f">>,
     loc |-> Loc_new(Len(l.code), Len(l.code) + 1)]

tokenize_result_tokens_first(l, errors) ==
    IF l.tokens # <<>> THEN [ok |-> TRUE, tokens |-> l.tokens]
    ELSE [ok |-> FALSE, errors |-> errors]

\* tokenize's return value.
tokenize_result(l, errors) ==
    IF errors = <<>> THEN [ok |-> TRUE, tokens |-> l.tokens]
    ELSE [ok |-> FALSE, errors |-> errors]

(***************************************************************************)
(* Parser                                                                  *)
(*                                                                         *)
(* A Result is [ok, v, p]: v is the value or the error, p the Parser after *)
(* the call.  An error is [err, arg, loc].                                 *)
(***************************************************************************)
Parser_default == [tokens |-> <<>>, start_loc |-> 0, current |-> 0]

Ok(v, p) == [ok |-> TRUE, v |-> v, p |-> p]

Err(err, arg, loc, p) ==
    [ok |-> FALSE, v |-> [err |-> err, arg |-> arg, loc |-> loc], p |-> p]

\* `let r = e; ...`: e is evaluated once and named.
Bind(r, F(_)) == F(r)

\* `e?`: an Err returns from the calling function as it is.
Try(r, F(_)) == IF r.ok THEN F(r) ELSE r

Parser_at(p) == p.tokens[p.current + 1]

Parser_is_at(p, kind) == Parser_at(p).kind = kind

Parser_prev(p) == p.tokens[p.current]

Parser_eof(p) == Parser_is_at(p, "Eof")

\* A loc that ends on the last token eaten instead of the token under the cursor.
Parser_get_loc_prev_token(p) == Loc_new(p.start_loc, Parser_prev(p).loc.start)

Parser_get_loc(p) == Loc_new(p.start_loc, Parser_at(p).loc.start)

eaten(q) == Ok(Parser_prev(q), q)

\* An eat that moves the cursor without looking for the end of the tokens.
Parser_eat_unchecked(p) == eaten([p EXCEPT !.current = @ + 1])

Parser_eat(p) ==
    IF Parser_eof(p)
    THEN Err("UnexpectedEof", NoValue, Parser_get_loc(p), p)
    ELSE eaten([p EXCEPT !.current = @ + 1])

Parser_expect(p, kind) ==
    Try(Parser_eat(p), LAMBDA tk :
        IF tk.v.kind = kind THEN Ok(Parser_prev(tk.p), tk.p)
        ELSE Err("UnexpextedToken", <<kind, tk.v.kind>>, Parser_get_loc(tk.p), tk.p))

RECURSIVE skip_new_lines_loop(_)
skip_new_lines_loop(p) ==
    IF ~Parser_eof(p) /\ Parser_is_at(p, "NewLine")
    THEN skip_new_lines_loop([p EXCEPT !.current = @ + 1])
    ELSE p

\* A newline skip that leaves start_loc as it was.
skip_new_lines_keep_start(p) == skip_new_lines_loop(p)

skip_new_lines(p) ==
    Bind(skip_new_lines_loop(p), LAMBDA q : [q EXCEPT !.start_loc = Parser_at(q).loc.start])

RECURSIVE synchronize_loop(_)
synchronize_loop(p) ==
    IF ~Parser_eof(p)
    THEN IF Parser_at(p).kind = "NewLine" THEN p
         ELSE synchronize_loop(Parser_eat(p).p)
    ELSE p

Parser_synchronize_always(p) == synchronize_loop(p)

Parser_synchronize(p) ==
    IF Parser_prev(p).kind = "NewLine" THEN p ELSE synchronize_loop(p)

Parser_trigger_error(p, err, arg, synchro) ==
    Bind(IF synchro THEN Parser_synchronize(p) ELSE p, LAMBDA s :
        Err(err, arg, Parser_get_loc(s), s))

\* Display of a ParserErr: the variant and its arguments decide the message.
to_string(e) == <<e.err, e.arg>>

(***************************************************************************)
(* str::parse::<i64> and str::parse::<f64> on a token text.                *)
(***************************************************************************)
RECURSIVE strip_zeros(_)
strip_zeros(ds) ==
    IF Len(ds) > 1 /\ Head(ds) = "0" THEN strip_zeros(Tail(ds)) ELSE ds

DigitValue(c) == CHOOSE n \in 0..9 : ToString(n) = c

RECURSIVE DecValue(_)
DecValue(ds) ==
    IF ds = <<>> THEN 0
    ELSE 10 * DecValue(SubSeq(ds, 1, Len(ds) - 1)) + DigitValue(ds[Len(ds)])

I64MaxDigits ==
    <<"9", "2", "2", "3", "3", "7", "2", "0", "3", "6", "8", "5", "4", "7",
      "7", "5", "8", "0", "7">>

RECURSIVE digits_leq(_, _)
digits_leq(a, b) ==
    IF a = <<>> THEN TRUE
    ELSE IF DigitValue(Head(a)) # DigitValue(Head(b))
    THEN DigitValue(Head(a)) < DigitValue(Head(b))
    ELSE digits_leq(Tail(a), Tail(b))

fits_i64(ds) ==
    LET z == strip_zeros(ds)
    IN  Len(z) < Len(I64MaxDigits)
        \/ (Len(z) = Len(I64MaxDigits) /\ digits_leq(z, I64MaxDigits))

parse_i64(text) ==
    IF text # <<>> /\ (\A i \in 1..Len(text) : text[i] \in AsciiDigits) /\ fits_i64(text)
    THEN [ok |-> TRUE, value |-> DecValue(text)]
    ELSE [ok |-> FALSE]

RECURSIVE strip_trailing_zeros(_)
strip_trailing_zeros(ds) ==
    IF ds # <<>> /\ ds[Len(ds)] = "0"
    THEN strip_trailing_zeros(SubSeq(ds, 1, Len(ds) - 1))
    ELSE ds

\* A Real token's text is a numeric run, a dot and a numeric run.
parse_f64(text) ==
    LET dot == CHOOSE i \in 1..Len(text) : text[i] = "."
        whole == SubSeq(text, 1, dot - 1)
        frac == SubSeq(text, dot + 1, Len(text))
    IN  IF \A i \in 1..Len(text) : text[i] \in AsciiDigits \cup {"."}
        THEN [ok |-> TRUE,
              value |-> [whole |-> DecValue(whole), frac |-> strip_trailing_zeros(frac)]]
        ELSE [ok |-> FALSE]

(***************************************************************************)
(* Expressions                                                             *)
(***************************************************************************)
BinaryExpr(left, operator, right, loc) ==
    [node |-> "Binary", left |-> left, operator |-> operator, right |-> right, loc |-> loc]

GroupingExpr(expr, loc) == [node |-> "Grouping", expr |-> expr, loc |-> loc]

IntLiteralExpr(value, loc) == [node |-> "IntLiteral", value |-> value, loc |-> loc]

RealLiteralExpr(value, loc) == [node |-> "RealLiteral", value |-> value, loc |-> loc]

StrLiteralExpr(value, loc) == [node |-> "StrLiteral", value |-> value, loc |-> loc]

IdentifierExpr(name, loc) == [node |-> "Identifier", name |-> name, loc |-> loc]

UnaryExpr(operator, right, loc) ==
    [node |-> "Unary", operator |-> operator, right |-> right, loc |-> loc]

AssignExpr(name, value, loc) ==
    [node |-> "Assign", name |-> name, value |-> value, loc |-> loc]

parse_int_literal(p) ==
    Bind(parse_i64(Parser_prev(p).value), LAMBDA value :
        IF ~value.ok THEN Err("ParsingInt", NoValue, Parser_get_loc(p), p)
        ELSE Ok(IntLiteralExpr(value.value, Parser_get_loc(p)), p))

parse_real_literal(p) ==
    Bind(parse_f64(Parser_prev(p).value), LAMBDA value :
        IF ~value.ok THEN Err("ParsingReal", NoValue, Parser_get_loc(p), p)
        ELSE Ok(RealLiteralExpr(value.value, Parser_get_loc(p)), p))

parse_str_literal(p) ==
    Ok(StrLiteralExpr(Parser_prev(p).value, Parser_get_loc(p)), p)

RECURSIVE parse_expr(_)

\* A group that hands on the error of its inner expression as it is.
parse_grouping_no_remap(p) ==
    Try(parse_expr(p), LAMBDA inner :
        Bind(Parser_expect(inner.p, "CloseParen"), LAMBDA close :
            IF ~close.ok
            THEN Err("ParenNeverClosed", NoValue, Parser_get_loc(close.p), close.p)
            ELSE Ok(GroupingExpr(inner.v, Parser_get_loc(close.p)), close.p)))

parse_grouping(p) ==
    Bind(parse_expr(p), LAMBDA inner :
        IF ~inner.ok
        THEN IF inner.v.err \in {"UnexpectedEof", "UnexpectedEol"}
             THEN Err("ParenNeverClosed", NoValue, Parser_get_loc(inner.p), inner.p)
             ELSE inner
        ELSE Bind(Parser_expect(inner.p, "CloseParen"), LAMBDA close :
                 IF ~close.ok
                 THEN Err("ParenNeverClosed", NoValue, Parser_get_loc(close.p), close.p)
                 ELSE Ok(GroupingExpr(inner.v, Parser_get_loc(close.p)), close.p)))

\* A primary that knows only `+` and `*` as operators without a left operand.
primary_of_plus_star(tk, q) ==
    IF tk.kind \in {"Identifier", "True", "False", "Null"}
    THEN Ok(IdentifierExpr(Parser_prev(q).value, Parser_get_loc(q)), q)
    ELSE IF tk.kind = "Int" THEN parse_int_literal(q)
    ELSE IF tk.kind = "Real" THEN parse_real_literal(q)
    ELSE IF tk.kind = "String" THEN parse_str_literal(q)
    ELSE IF tk.kind = "OpenParen" THEN parse_grouping(q)
    ELSE IF tk.kind = "NewLine"
    THEN Parser_trigger_error(q, "UnexpectedEol", NoValue, FALSE)
    ELSE IF tk.kind \in {"Star", "Plus"}
    THEN Parser_trigger_error(q, "MissingLhsInBinop", NoValue, TRUE)
    ELSE Parser_trigger_error(q, "UnknownToken", Parser_prev(q).value, TRUE)

primary_of(tk, q) ==
    IF tk.kind \in {"Identifier", "True", "False", "Null"}
    THEN Ok(IdentifierExpr(Parser_prev(q).value, Parser_get_loc(q)), q)
    ELSE IF tk.kind = "Int" THEN parse_int_literal(q)
    ELSE IF tk.kind = "Real" THEN parse_real_literal(q)
    ELSE IF tk.kind = "String" THEN parse_str_literal(q)
    ELSE IF tk.kind = "OpenParen" THEN parse_grouping(q)
    ELSE IF tk.kind = "NewLine"
    THEN Parser_trigger_error(q, "UnexpectedEol", NoValue, FALSE)
    ELSE IF tk.kind \in {"Star", "Plus", "Slash", "Modulo"}
    THEN Parser_trigger_error(q, "MissingLhsInBinop", NoValue, TRUE)
    ELSE Parser_trigger_error(q, "UnknownToken", Parser_prev(q).value, TRUE)

parse_primary(p) == Try(Parser_eat(p), LAMBDA tk : primary_of(tk.v, tk.p))

\* A unary whose operand may be another unary.
RECURSIVE parse_unary_nested(_)
parse_unary_nested(p) ==
    IF Parser_is_at(p, "Bang") \/ Parser_is_at(p, "Minus")
    THEN Try(Parser_eat(p), LAMBDA operator :
         Try(parse_unary_nested(operator.p), LAMBDA right :
             Ok(UnaryExpr(operator.v.value, right.v, Parser_get_loc(right.p)), right.p)))
    ELSE parse_primary(p)

parse_unary(p) ==
    IF Parser_is_at(p, "Bang") \/ Parser_is_at(p, "Minus")
    THEN Try(Parser_eat(p), LAMBDA operator :
         Try(parse_primary(operator.p), LAMBDA right :
             Ok(UnaryExpr(operator.v.value, right.v, Parser_get_loc(right.p)), right.p)))
    ELSE parse_primary(p)

RECURSIVE parse_factor_loop(_, _)
parse_factor_loop(p, expr) ==
    IF Parser_is_at(p, "Star") \/ Parser_is_at(p, "Slash") \/ Parser_is_at(p, "Modulo")
    THEN Try(Parser_eat(p), LAMBDA operator :
         Try(parse_unary(operator.p), LAMBDA right :
             parse_factor_loop(right.p,
                 BinaryExpr(expr, operator.v.value, right.v, Parser_get_loc(right.p)))))
    ELSE Ok(expr, p)

parse_factor(p) ==
    Try(parse_unary(p), LAMBDA expr : parse_factor_loop(expr.p, expr.v))

RECURSIVE parse_term_loop(_, _)
parse_term_loop(p, expr) ==
    IF Parser_is_at(p, "Minus") \/ Parser_is_at(p, "Plus")
    THEN Try(Parser_eat(p), LAMBDA operator :
         Try(parse_factor(operator.p), LAMBDA right :
             parse_term_loop(right.p,
                 BinaryExpr(expr, operator.v.value, right.v, Parser_get_loc(right.p)))))
    ELSE Ok(expr, p)

\* A term whose right operand is parsed as a whole term.
RECURSIVE parse_term_right_assoc(_)
parse_term_right_assoc(p) ==
    Try(parse_factor(p), LAMBDA expr :
        IF Parser_is_at(expr.p, "Minus") \/ Parser_is_at(expr.p, "Plus")
        THEN Try(Parser_eat(expr.p), LAMBDA operator :
             Try(parse_term_right_assoc(operator.p), LAMBDA right :
                 Ok(BinaryExpr(expr.v, operator.v.value, right.v, Parser_get_loc(right.p)),
                    right.p)))
        ELSE expr)

parse_term(p) ==
    Try(parse_factor(p), LAMBDA expr : parse_term_loop(expr.p, expr.v))

RECURSIVE parse_comparison_loop(_, _)
parse_comparison_loop(p, expr) ==
    IF Parser_is_at(p, "Less") \/ Parser_is_at(p, "LessEqual")
       \/ Parser_is_at(p, "Greater") \/ Parser_is_at(p, "GreaterEqual")
    THEN Try(Parser_eat(p), LAMBDA operator :
         Try(parse_term(operator.p), LAMBDA right :
             parse_comparison_loop(right.p,
                 BinaryExpr(expr, operator.v.value, right.v, Parser_get_loc(right.p)))))
    ELSE Ok(expr, p)

parse_comparison(p) ==
    Try(parse_term(p), LAMBDA expr : parse_comparison_loop(expr.p, expr.v))

RECURSIVE parse_equality_loop(_, _)
parse_equality_loop(p, expr) ==
    IF Parser_is_at(p, "EqualEqual") \/ Parser_is_at(p, "BangEqual")
    THEN Try(Parser_eat(p), LAMBDA operator :
         Try(parse_comparison(operator.p), LAMBDA right :
             parse_equality_loop(right.p,
                 BinaryExpr(expr, operator.v.value, right.v, Parser_get_loc(right.p)))))
    ELSE Ok(expr, p)

parse_equality(p) ==
    Try(parse_comparison(p), LAMBDA expr : parse_equality_loop(expr.p, expr.v))

\* An assignment whose value is parsed one level up.
parse_assign_single(p) ==
    Try(parse_equality(p), LAMBDA assigne :
        IF Parser_is_at(assigne.p, "Equal")
        THEN Try(Parser_eat(assigne.p), LAMBDA eq :
             Try(parse_equality(eq.p), LAMBDA value :
                 IF assigne.v.node = "Identifier"
                 THEN Ok(AssignExpr(assigne.v.name, value.v, Parser_get_loc(value.p)),
                         value.p)
                 ELSE Parser_trigger_error(value.p, "InvalidAssignTarget", NoValue, TRUE)))
        ELSE assigne)

RECURSIVE parse_assign(_)
parse_assign(p) ==
    Try(parse_equality(p), LAMBDA assigne :
        IF Parser_is_at(assigne.p, "Equal")
        THEN Try(Parser_eat(assigne.p), LAMBDA eq :
             Try(parse_assign(eq.p), LAMBDA value :
                 IF assigne.v.node = "Identifier"
                 THEN Ok(AssignExpr(assigne.v.name, value.v, Parser_get_loc(value.p)),
                         value.p)
                 ELSE Parser_trigger_error(value.p, "InvalidAssignTarget", NoValue, TRUE)))
        ELSE assigne)

parse_expr(p) == parse_assign(p)

(***************************************************************************)
(* Statements                                                              *)
(***************************************************************************)
ExprStmt(expr, loc) == [stmt |-> "Expr", expr |-> expr, loc |-> loc]

PrintStmt(expr, loc) == [stmt |-> "Print", expr |-> expr, loc |-> loc]

BlockStmt(ss, loc) == [stmt |-> "Block", stmts |-> ss, loc |-> loc]

VarDeclStmt(name, value, loc) ==
    [stmt |-> "VarDecl", name |-> name, value |-> value, loc |-> loc]

var_value_of_no_wrap(name, v) ==
    IF v.ok THEN Ok(VarDeclStmt(name, v.v, Parser_get_loc(v.p)), v.p)
    ELSE Parser_trigger_error(v.p, "NoExprAssign", NoValue, TRUE)

var_value_of(name, v) ==
    IF v.ok THEN Ok(VarDeclStmt(name, v.v, Parser_get_loc(v.p)), v.p)
    ELSE IF v.v.err \in {"UnexpectedEol", "UnexpectedEof"}
    THEN Parser_trigger_error(v.p, "NoExprAssign", NoValue, TRUE)
    ELSE Parser_trigger_error(v.p, "IncorrectVarDeclVal", to_string(v.v), TRUE)

var_name_of(name, q) ==
    IF ~name.ok THEN Parser_trigger_error(q, "VarDeclNoName", NoValue, TRUE)
    ELSE IF Parser_at(q).kind = "Equal"
    THEN Try(Parser_eat(q), LAMBDA eq : var_value_of(name.v.value, parse_expr(eq.p)))
    ELSE IF Parser_at(q).kind \in {"NewLine", "Eof"}
    THEN Ok(VarDeclStmt(name.v.value, NoValue, Parser_get_loc(q)), q)
    ELSE Parser_trigger_error(q, "WrongRhsVarDecl", NoValue, TRUE)

parse_var_declaration(p) ==
    Try(Parser_expect(p, "Var"), LAMBDA kw :
        Bind(Parser_expect(kw.p, "Identifier"), LAMBDA name : var_name_of(name, name.p)))

parse_print_stmt(p) ==
    Try(Parser_expect(p, "Print"), LAMBDA kw :
    Try(parse_expr(kw.p), LAMBDA expr :
        Ok(PrintStmt(expr.v, Parser_get_loc(expr.p)), expr.p)))

parse_expr_stmt(p) ==
    Try(parse_expr(p), LAMBDA expr :
        Ok(ExprStmt(expr.v, Parser_get_loc(expr.p)), expr.p))

RECURSIVE parse_declarations(_)

RECURSIVE parse_block_loop(_, _)
parse_block_loop(p, ss) ==
    IF ~Parser_is_at(p, "CloseBrace") /\ ~Parser_eof(p)
    THEN Try(parse_declarations(p), LAMBDA s :
             parse_block_loop(skip_new_lines(s.p), Append(ss, s.v)))
    ELSE Ok(ss, p)

\* A block that takes the end of the file for its closing brace.
parse_block_stmt_lenient(p) ==
    Try(Parser_expect(p, "OpenBrace"), LAMBDA open :
    Try(parse_block_loop(skip_new_lines(open.p), <<>>), LAMBDA body :
    Bind(Parser_expect(body.p, "CloseBrace"), LAMBDA close :
        Ok(BlockStmt(body.v, Parser_get_loc(close.p)), close.p))))

parse_block_stmt(p) ==
    Try(Parser_expect(p, "OpenBrace"), LAMBDA open :
    Try(parse_block_loop(skip_new_lines(open.p), <<>>), LAMBDA body :
    Bind(Parser_expect(body.p, "CloseBrace"), LAMBDA close :
        IF ~close.ok
        THEN Parser_trigger_error(close.p, "UnclosedBlock", NoValue, TRUE)
        ELSE Ok(BlockStmt(body.v, Parser_get_loc(close.p)), close.p))))

parse_stmt(p) ==
    IF Parser_at(p).kind = "Print" THEN parse_print_stmt(p)
    ELSE IF Parser_at(p).kind = "OpenBrace" THEN parse_block_stmt(p)
    ELSE parse_expr_stmt(p)

parse_declarations(p) ==
    IF Parser_at(p).kind = "Var" THEN parse_var_declaration(p) ELSE parse_stmt(p)

parse_result_partial(ss, errors) ==
    IF ss = <<>> /\ errors # <<>> THEN [ok |-> FALSE, errors |-> errors]
    ELSE [ok |-> TRUE, stmts |-> ss]

\* parse's return value.
parse_result(ss, errors) ==
    IF errors # <<>> THEN [ok |-> FALSE, errors |-> errors]
    ELSE [ok |-> TRUE, stmts |-> ss]

(***************************************************************************)
(* Source texts.  An input is a family and the pieces of the text; the     *)
(* text is the pieces joined by the family's separator.                    *)
(***************************************************************************)
RECURSIVE Join(_, _)
Join(parts, sep) ==
    IF parts = <<>> THEN <<>>
    ELSE IF Len(parts) = 1 THEN parts[1]
    ELSE parts[1] \o sep \o Join(Tail(parts), sep)

SeqsUpTo(S, lo, hi) == UNION {[1..n -> S] : n \in lo..hi}

\* Any text of at most MaxLen characters over the characters the lexer
\* tells apart in numbers, strings and error recovery.
LexAlphabet == {<<"1">>, <<".">>, <<"a">>, <<" ">>, <<"\n">>, <<"\"">>, <<"@">>}

CharInputs ==
    {[family |-> "chars", parts |-> ps] : ps \in SeqsUpTo(LexAlphabet, 0, MaxLen)}

\* operand (operator operand)*, with 1 to MaxOps binary operators.
BinaryOps ==
    {<<"=", "=">>, <<"!", "=">>, <<"<">>, <<">", "=">>, <<"+">>, <<"-">>,
     <<"*">>, <<"/">>}

Operand(i) == <<ToString(i)>>

ChainParts(ops) ==
    [i \in 1..(2 * Len(ops) + 1) |->
        IF i % 2 = 1 THEN Operand((i + 1) \div 2) ELSE ops[i \div 2]]

ChainInputs ==
    {[family |-> "chain", parts |-> ChainParts(ops)] :
        ops \in SeqsUpTo(BinaryOps, 1, MaxOps)}

\* target = ... = target = value, with 1 to MaxTargets targets.
AssignTargets ==
    {<<"a">>, <<"b">>, <<"7">>, <<"(", "a", ")">>, <<"-", "a">>,
     <<"a", " ", "+", " ", "1">>}

AssignValues == {<<"3">>, <<"c", " ", "*", " ", "2">>}

AssignParts(targets, value) ==
    [i \in 1..(2 * Len(targets) + 1) |->
        IF i = 2 * Len(targets) + 1 THEN value
        ELSE IF i % 2 = 1 THEN targets[(i + 1) \div 2] ELSE <<"=">>]

AssignInputs ==
    {[family |-> "assign", parts |-> AssignParts(ts, v)] :
        ts \in SeqsUpTo(AssignTargets, 1, MaxTargets), v \in AssignValues}

\* 1 to MaxLines lines, each a `var` declaration that is malformed.
BadVarLines ==
    {<<"v", "a", "r">>,
     <<"v", "a", "r", " ", "1">>,
     <<"v", "a", "r", " ", "b", " ", "i", "f">>,
     <<"v", "a", "r", " ", "b", " ", "1">>,
     <<"v", "a", "r", " ", "b", " ", "=">>,
     <<"v", "a", "r", " ", "c", " ", "=", " ", "v", "a", "r">>,
     <<"v", "a", "r", " ", "c", " ", "=", " ", "(", "1">>,
     <<"v", "a", "r", " ", "c", " ", "=", " ", "+">>,
     <<"v", "a", "r", " ", "c", " ", "=", " ", "1", " ", "=", " ", "2">>}

VarLineInputs ==
    {[family |-> "varlines", parts |-> ls] : ls \in SeqsUpTo(BadVarLines, 1, MaxLines)}

\* One `var` declaration that fails, alone, before a newline or before
\* another line.
NoNameDecls ==
    {<<"v", "a", "r">>,
     <<"v", "a", "r", " ", "1">>,
     <<"v", "a", "r", " ", "=", " ", "1">>}

WrongRhsDecls ==
    {<<"v", "a", "r", " ", "b", " ", "1">>,
     <<"v", "a", "r", " ", "b", " ", "i", "f">>,
     <<"v", "a", "r", " ", "b", " ", "(">>}

\* Right-hand sides that stop where an operand is expected, outside groups.
RhsEndsEarly ==
    {<<>>,
     <<"1", " ", "+">>,
     <<"-">>,
     <<"1", " ", "*", " ", "2", " ", "=", "=">>}

\* Right-hand sides that stop inside an open group.
RhsEndsInGroup ==
    {<<"(">>,
     <<"(", "1">>,
     <<"(", "1", " ", "+">>,
     <<"1", " ", "+", " ", "(", "(", "2", ")">>,
     <<"(", "(">>}

\* Right-hand sides that fail on a token, and the error they fail with.
RhsOtherErr ==
    (<<"+">> :> "MissingLhsInBinop")
    @@ (<<")">> :> "UnknownToken")
    @@ (<<"1", " ", "=", " ", "2">> :> "InvalidAssignTarget")
    @@ (<<"v", "a", "r">> :> "UnknownToken")
    @@ (<<"(", "1", " ", "+", " ", ")">> :> "UnknownToken")
    @@ (<<"(", "1", " ", "2">> :> "ParenNeverClosed")
    @@ (<<"!", "-", "a">> :> "UnknownToken")

DeclWithRhs(rhs) == <<"v", "a", "r", " ", "c", " ", "=">> \o (IF rhs = <<>> THEN <<>> ELSE <<" ">> \o rhs)

FailingDecls ==
    NoNameDecls \cup WrongRhsDecls
    \cup {DeclWithRhs(rhs) : rhs \in RhsEndsEarly \cup RhsEndsInGroup \cup DOMAIN RhsOtherErr}

VarDeclInputs ==
    {[family |-> "vardecl", parts |-> ps] :
        ps \in UNION {{<<d>>, <<d, <<>>>>, <<d, <<"a">>>>} : d \in FailingDecls}}

\* Blocks: some reach the end of the file open, some are closed.
UnclosedBlocks ==
    {<<"{", " ", "v", "a", "r", " ", "a", " ", "=", " ", "3">>,
     <<"{">>,
     <<"{", " ", "a">>,
     <<"{", "\n", "a", "\n">>,
     <<"{", " ", "{", " ", "a">>,
     <<"{", " ", "{", " ", "a", " ", "}">>,
     <<"{", " ", "a", "\n", "{", " ", "p", "r", "i", "n", "t", " ", "1">>,
     <<"a", "\n", "{", " ", "b">>,
     <<"{", "\n", "\n">>,
     <<"{", " ", "{", " ", "}", " ", "a">>,
     <<"{", " ", "{">>,
     <<"{", " ", "a", " ", "=", " ", "b", " ", "=", " ", "1", "\n", "\n", "{", " ", "c", " ", "*", " ", "2", "\n">>}

ClosedBlocks ==
    {<<"{", " ", "a", " ", "}">>,
     <<"{", " ", "}">>,
     <<"{", "\n", "a", "\n", "b", "\n", "}">>,
     <<"{", " ", "{", " ", "a", " ", "}", " ", "}">>,
     <<"{", " ", "v", "a", "r", " ", "a", " ", "=", " ", "3", " ", "}", "\n", "b">>,
     <<"{", "\n", "}", "\n">>}

BlockInputs ==
    {[family |-> "block", parts |-> <<b>>] : b \in UnclosedBlocks \cup ClosedBlocks}

\* 1 to MaxLines lines, each starting with a binary operator that has no
\* left operand.
LhsLessLines ==
    {<<"+", "5">>,
     <<"*", "6">>,
     <<"/", "7">>,
     <<"%", "8">>,
     <<"+">>,
     <<"*", " ", "(">>,
     <<"/", " ", "1", " ", "=", " ", "2">>,
     <<"%", " ", "v", "a", "r", " ", "c">>,
     <<"+", " ", "{", " ", "+">>,
     <<"*", " ", "\"", "a", "\"", " ", ")">>}

LhsLessInputs ==
    {[family |-> "lhsless", parts |-> ls] : ls \in SeqsUpTo(LhsLessLines, 1, MaxLines)}

\* Groups that are never closed: after a well-formed inner expression, or
\* where the line or the file ends on a missing operand.
OpenAfterExpr ==
    {<<"(", "1">>,
     <<"(", "1", " ", "2">>,
     <<"(", "a", " ", "+", " ", "1">>,
     <<"(", "(", "1", ")">>,
     <<"(", "1", "\n">>,
     <<"(", "a", " ", "}">>,
     <<"p", "r", "i", "n", "t", " ", "(", "1">>,
     <<"(", "1", " ", "+", " ", "(", "2", " ", "*", " ", "3">>}

OpenAtOperand ==
    {<<"(">>,
     <<"(", "\n">>,
     <<"(", "1", " ", "+">>,
     <<"(", "1", " ", "+", "\n", "2">>,
     <<"(", "(">>,
     <<"(", "-">>,
     <<"(", "1", " ", "*", " ", "(">>,
     <<"(", "(", "\n">>,
     <<"(", "a", " ", "=">>,
     <<"p", "r", "i", "n", "t", " ", "(", "(", "(">>,
     <<"(", "(", "1", ")", " ", "+", "\n">>}

GroupInputs ==
    {[family |-> "group", parts |-> <<g>>] : g \in OpenAfterExpr \cup OpenAtOperand}

\* Expressions with a leading `!` or `-`: one operator before a primary,
\* and two operators in a row.
SingleUnary ==
    {<<"-", "2", " ", "*", " ", "3">>,
     <<"!", "a">>,
     <<"-", "a", " ", "+", " ", "b">>,
     <<"!", "a", " ", "=", "=", " ", "b">>,
     <<"-", "(", "2", " ", "*", " ", "3", ")">>,
     <<"2", " ", "*", " ", "-", "3">>,
     <<"a", " ", "-", " ", "-", "b">>}

DoubleUnary ==
    {<<"!", "-", "x">>,
     <<"-", "-", "x">>,
     <<"!", "!", "x">>,
     <<"-", "!", "x">>,
     <<"2", " ", "*", " ", "-", "-", "3">>,
     <<"(", "!", "!", "a", ")">>,
     <<"-", " ", "-", "x">>}

UnaryInputs ==
    {[family |-> "unary", parts |-> <<u>>] : u \in SingleUnary \cup DoubleUnary}

\* Lines that fail in the middle, with tokens left after the failure.
MidLineFailures ==
    {<<"(", "1", " ", "2", " ", "3">>,
     <<"(", "1", " ", "2", " ", ")">>,
     <<"9", "9", "9", "9", "9", "9", "9", "9", "9", "9", "9", "9", "9", "9", "9", "9", "9", "9", "9", "9", " ", "1">>,
     <<"+", " ", "1", "\n", "2">>,
     <<"v", "a", "r", "\n", "b">>,
     <<"a", " ", "=", " ", "(", "1", " ", "2", " ", "=", " ", "3", "\n", "b">>,
     <<"7", " ", "=", " ", "6", " ", "5">>,
     <<"p", "r", "i", "n", "t", " ", ")", " ", "1">>,
     <<"{", " ", "(", "1", " ", "2", " ", "3", "\n", "}">>,
     <<"1", " ", "+">>,
     <<"p", "r", "i", "n", "t">>}

RecoverInputs ==
    {[family |-> "recover", parts |-> <<m>>] : m \in MidLineFailures}

\* Closed blocks that hold one malformed statement, the closing brace on a
\* later line.
BlocksWithError ==
    {<<"{", "\n", "+", " ", "1", "\n", "a", "\n", "}">>,
     <<"{", "\n", "v", "a", "r", "\n", "}">>,
     <<"{", "\n", "(", "\n", "b", "\n", "}", "\n">>,
     <<"{", "\n", "7", " ", "=", " ", "6", "\n", "p", "r", "i", "n", "t", " ", "1", "\n", "}">>,
     <<"{", "\n", "a", "\n", ")", "\n", "}">>,
     <<"{", "\n", "v", "a", "r", " ", "a", " ", "=", "\n", "b", "\n", "}">>,
     <<"{", "\n", "{", "\n", "*", " ", "2", "\n", "}", "\n", "}">>,
     <<"{", " ", "a", "\n", "!", "!", "b", "\n", "}">>}

BlockErrInputs ==
    {[family |-> "blockerr", parts |-> <<b>>] : b \in BlocksWithError}

\* Lines that hold two statements with no newline between them.
TwoOnOneLine ==
    {<<"1", " ", "2">>,
     <<"p", "r", "i", "n", "t", " ", "1", " ", "p", "r", "i", "n", "t", " ", "2">>,
     <<"a", " ", "b", "\n">>,
     <<"v", "a", "r", " ", "c", " ", "=", " ", "1", " ", "2">>,
     <<"p", "r", "i", "n", "t", " ", "a", " ", "b", "\n", "c">>,
     <<"{", " ", "a", " ", "}", " ", "1">>,
     <<"a", " ", "=", " ", "1", " ", "p", "r", "i", "n", "t", " ", "a">>}

SameLineInputs ==
    {[family |-> "sameline", parts |-> <<l>>] : l \in TwoOnOneLine}

Separator(family) ==
    CASE family = "chars" -> <<>>
      [] family \in {"varlines", "vardecl", "lhsless"} -> <<"\n">>
      [] OTHER -> <<" ">>

Source(i) == Join(i.parts, Separator(i.family))

Inputs ==
    CharInputs \cup ChainInputs \cup AssignInputs \cup VarLineInputs \cup VarDeclInputs
    \cup BlockInputs \cup LhsLessInputs \cup GroupInputs
    \cup UnaryInputs \cup RecoverInputs \cup BlockErrInputs \cup SameLineInputs

(***************************************************************************)
(* Lexer::new() and Parser::default(), before any call.                    *)
(***************************************************************************)
Init ==
    /\ input \in Inputs
    /\ lexer = Lexer_default
    /\ lex_errors = <<>>
    /\ lexed = NoValue
    /\ parser = Parser_default
    /\ stmts = <<>>
    /\ parse_errors = <<>>
    /\ parsed = NoValue
    /\ pc = "new"

(***************************************************************************)
(* tokenize                                                                *)
(***************************************************************************)
TokenizeCall ==
    /\ pc = "new"
    /\ lexer' = [lexer EXCEPT !.code = Source(input)]
    /\ lex_errors' = <<>>
    /\ pc' = "tokenize"
    /\ UNCHANGED <<input, lexed, parser, stmts, parse_errors, parsed>>

InLoop == pc = "tokenize" /\ ~Lexer_eof(lexer)

\* The character c of the iteration.
AtChar == Lexer_prev(scan_begin(lexer))

\* One iteration: r is the arm's outcome, an Err(e) is pushed on errors.
LexStep(r) ==
    /\ lexer' = r.l
    /\ lex_errors' = lex_errors \o r.e
    /\ UNCHANGED <<input, lexed, parser, stmts, parse_errors, parsed, pc>>

lex_dot(l) ==
    LET r == Lexer_is_at(l, ".")
    IN  IF r.hit THEN LexOk(add_token(r.l, "DotDot")) ELSE LexOk(add_token(r.l, "Dot"))

lex_one_or_two(l, c) ==
    LET r == Lexer_is_at(l, "=")
    IN  LexOk(add_token(r.l, IF r.hit THEN TwoCharKind[c] ELSE OneCharKind[c]))

lex_slash(l) ==
    LET r == Lexer_is_at(l, "/")
    IN  IF r.hit THEN LexOk(lex_comment(r.l)) ELSE LexOk(add_token(r.l, "Slash"))

LexSkip ==
    /\ InLoop
    /\ AtChar \in {"\r", "\t", " "}
    /\ LexStep(LexOk(scan_begin(lexer)))

LexSingle ==
    /\ InLoop
    /\ AtChar \in DOMAIN SingleCharKind
    /\ LexStep(LexOk(add_token(scan_begin(lexer), SingleCharKind[AtChar])))

LexDot ==
    /\ InLoop
    /\ AtChar = "."
    /\ LexStep(lex_dot(scan_begin(lexer)))

LexOneOrTwo ==
    /\ InLoop
    /\ AtChar \in DOMAIN OneCharKind
    /\ LexStep(lex_one_or_two(scan_begin(lexer), AtChar))

LexSlash ==
    /\ InLoop
    /\ AtChar = "/"
    /\ LexStep(lex_slash(scan_begin(lexer)))

LexString ==
    /\ InLoop
    /\ AtChar = "\""
    /\ LexStep(lex_string(scan_begin(lexer)))

OtherChar ==
    AtChar \notin {"\r", "\t", " ", ".", "/", "\""}
                  \cup DOMAIN SingleCharKind \cup DOMAIN OneCharKind

LexNumber ==
    /\ InLoop
    /\ OtherChar
    /\ is_numeric(AtChar)
    /\ LexStep(lex_number(scan_begin(lexer)))

LexIdentifier ==
    /\ InLoop
    /\ OtherChar
    /\ ~is_numeric(AtChar)
    /\ is_alphabetic(AtChar)
    /\ LexStep(lex_identifier(scan_begin(lexer)))

LexUnexpected ==
    /\ InLoop
    /\ OtherChar
    /\ ~is_numeric(AtChar)
    /\ ~is_alphabetic(AtChar)
    /\ LexStep(Lexer_trigger_error(scan_begin(lexer), "UnexpectedToken", AtChar))

TokenizeReturn ==
    /\ pc = "tokenize"
    /\ Lexer_eof(lexer)
    /\ lexer' = [lexer EXCEPT !.tokens = Append(@, eof_token(lexer))]
    /\ lexed' = tokenize_result(lexer', lex_errors)
    /\ pc' = "tokenized"
    /\ UNCHANGED <<input, lex_errors, parser, stmts, parse_errors, parsed>>

(***************************************************************************)
(* parse, on the tokens of a successful tokenize                           *)
(***************************************************************************)
ParseCall ==
    /\ pc = "tokenized"
    /\ lexed.ok
    /\ parser' = [parser EXCEPT !.tokens = lexed.tokens]
    /\ stmts' = <<>>
    /\ parse_errors' = <<>>
    /\ pc' = "parse"
    /\ UNCHANGED <<input, lexer, lex_errors, lexed, parsed>>

\* match self.parse_declarations(): Ok(stmt) is pushed on stmts, Err(e) on errors.
ParseStep(r) ==
    /\ parser' = r.p
    /\ stmts' = IF r.ok THEN Append(stmts, r.v) ELSE stmts
    /\ parse_errors' = IF r.ok THEN parse_errors ELSE Append(parse_errors, r.v)
    /\ UNCHANGED <<input, lexer, lex_errors, lexed, parsed, pc>>

\* One iteration of the loop that reaches parse_declarations.
ParseDeclaration ==
    /\ pc = "parse"
    /\ ~Parser_eof(parser)
    /\ ~Parser_eof(skip_new_lines(parser))
    /\ ParseStep(parse_declarations(skip_new_lines(parser)))

\* The loop ends, at its condition or at the break after skip_new_lines.
ParseReturn ==
    /\ pc = "parse"
    /\ IF Parser_eof(parser) THEN TRUE ELSE Parser_eof(skip_new_lines(parser))
    /\ parser' = IF Parser_eof(parser) THEN parser ELSE skip_new_lines(parser)
    /\ parsed' = parse_result(stmts, parse_errors)
    /\ pc' = "parsed"
    /\ UNCHANGED <<input, lexer, lex_errors, lexed, stmts, parse_errors>>

Next ==
    \/ TokenizeCall
    \/ LexSkip
    \/ LexSingle
    \/ LexDot
    \/ LexOneOrTwo
    \/ LexSlash
    \/ LexString
    \/ LexNumber
    \/ LexIdentifier
    \/ LexUnexpected
    \/ TokenizeReturn
    \/ ParseCall
    \/ ParseDeclaration
    \/ ParseReturn

Spec == Init /\ [][Next]_vars

(***************************************************************************)
(* The same Lexer and the same Parser called again with the same input.    *)
(* Neither tokenize nor parse resets start, current, start_loc or tokens.  *)
(***************************************************************************)
\* Every tokenize call pushes one Eof.
Calls(l) == Cardinality({i \in DOMAIN l.tokens : l.tokens[i].kind = "Eof"})

TokenizeAgain ==
    /\ pc = "tokenized"
    /\ Calls(lexer) < MaxCalls
    /\ lexer' = [lexer EXCEPT !.code = Source(input)]
    /\ lex_errors' = <<>>
    /\ pc' = "tokenize"
    /\ UNCHANGED <<input, lexed, parser, stmts, parse_errors, parsed>>

ParseAgain ==
    /\ pc = "parsed"
    /\ parser' = [parser EXCEPT !.tokens = lexed.tokens]
    /\ stmts' = <<>>
    /\ parse_errors' = <<>>
    /\ pc' = "parse"
    /\ UNCHANGED <<input, lexer, lex_errors, lexed, parsed>>

NextReuse ==
    \/ TokenizeCall
    \/ LexSkip
    \/ LexSingle
    \/ LexDot
    \/ LexOneOrTwo
    \/ LexSlash
    \/ LexString
    \/ LexNumber
    \/ LexIdentifier
    \/ LexUnexpected
    \/ TokenizeReturn
    \/ ParseCall
    \/ ParseDeclaration
    \/ ParseReturn
    \/ TokenizeAgain
    \/ ParseAgain

ReuseSpec == Init /\ [][NextReuse]_vars

(***************************************************************************)
(* Properties                                                              *)
(***************************************************************************)
Tokenized == pc \in {"tokenized", "parse", "parsed"}

\* C1: tokenize returns the token list exactly when no lexical error was
\* raised, and otherwise only the error list; the errors are those raised
\* during the scan, one per failed lexeme, each spanning its own stretch of
\* the source up to the next whitespace, in source order.
C1_TokensOrErrors ==
    /\ \A i \in 1..Len(lex_errors) :
          /\ lex_errors[i].loc.start < lex_errors[i].loc.end
          /\ lex_errors[i].loc.end <= Len(lexer.code)
          /\ \A k \in (lex_errors[i].loc.start + 1)..lex_errors[i].loc.end :
                lexer.code[k] \notin {" ", "\t", "\r", "\n"}
          /\ i < Len(lex_errors) => lex_errors[i].loc.end <= lex_errors[i + 1].loc.start
    /\ Tokenized =>
          /\ lexed.ok <=> lex_errors = <<>>
          /\ lexed.ok => DOMAIN lexed = {"ok", "tokens"} /\ lexed.tokens = lexer.tokens
          /\ ~lexed.ok => DOMAIN lexed = {"ok", "errors"} /\ lexed.errors = lex_errors

\* Two lexemes failed in one scan and tokens were stored beside them.
C1_Witness ==
    /\ pc = "tokenized"
    /\ ~lexed.ok
    /\ Len(lexed.errors) >= 2
    /\ Len(lexer.tokens) >= 2

\* C3: after tokenize on a fresh Lexer the last stored token is Eof at
\* [n, n + 1) for a source of n characters, errors or not, and no other
\* stored token is an Eof.
C3_EofLast ==
    Tokenized =>
        LET n == Len(lexer.code)
            ts == lexer.tokens
        IN  /\ ts # <<>>
            /\ ts[Len(ts)].kind = "Eof"
            /\ ts[Len(ts)].loc = Loc_new(n, n + 1)
            /\ \A i \in 1..(Len(ts) - 1) : ts[i].kind # "Eof"

\* The last lexeme failed and synchronisation ran to the end of the input.
C3_Witness ==
    /\ pc = "tokenized"
    /\ ~lexed.ok
    /\ lex_errors[Len(lex_errors)].loc.end = Len(lexer.code)
    /\ lexer.current = Len(lexer.code)
    /\ lexer.start < Len(lexer.code) - 1
    /\ lexer.tokens[Len(lexer.tokens)].kind = "Eof"

(***************************************************************************)
(* The text each kind of token stands for.                                 *)
(***************************************************************************)
PunctText ==
    ("OpenParen" :> <<"(">>) @@ ("CloseParen" :> <<")">>) @@ ("OpenBrace" :> <<"{">>)
    @@ ("CloseBrace" :> <<"}">>) @@ ("Comma" :> <<",">>) @@ ("Dot" :> <<".">>)
    @@ ("Minus" :> <<"-">>) @@ ("Plus" :> <<"+">>) @@ ("Slash" :> <<"/">>)
    @@ ("Star" :> <<"*">>) @@ ("Modulo" :> <<"%">>) @@ ("Bang" :> <<"!">>)
    @@ ("BangEqual" :> <<"!", "=">>) @@ ("Equal" :> <<"=">>)
    @@ ("EqualEqual" :> <<"=", "=">>) @@ ("Greater" :> <<">">>)
    @@ ("GreaterEqual" :> <<">", "=">>) @@ ("Less" :> <<"<">>)
    @@ ("LessEqual" :> <<"<", "=">>) @@ ("DotDot" :> <<".", ".">>)
    @@ ("NewLine" :> <<"\n">>)

KeywordKinds == {keywords[w] : w \in DOMAIN keywords}

IsLexemeOf(text, kind) ==
    CASE kind \in DOMAIN PunctText -> text = PunctText[kind]
      [] kind \in KeywordKinds -> text \in DOMAIN keywords /\ keywords[text] = kind
      [] kind = "Int" -> text # <<>> /\ \A i \in 1..Len(text) : is_numeric(text[i])
      [] kind = "Real" ->
            \E d \in 2..Len(text) :
                /\ text[d] = "."
                /\ \A i \in 1..Len(text) : i # d => is_numeric(text[i])
      [] kind = "Identifier" ->
            /\ text # <<>>
            /\ is_alphabetic(text[1])
            /\ \A i \in 1..Len(text) : is_alphanumeric(text[i]) \/ text[i] = "_"
            /\ text \notin DOMAIN keywords
      [] kind = "String" -> \A i \in 1..Len(text) : text[i] # "\""
      [] OTHER -> FALSE

\* The characters of code at the offsets [loc.start, loc.end).
Slice(code, loc) == SubSeq(code, loc.start + 1, loc.end)

\* C4: every token tokenize returns, other than String and Eof, has as
\* text the characters of its own lexeme, and a String token has as text
\* the characters between its two quotes.
C4_TextIsLexeme ==
    (Tokenized /\ lexed.ok) =>
        \A i \in 1..Len(lexed.tokens) :
            LET tk == lexed.tokens[i]
            IN  tk.kind # "Eof" =>
                    /\ IsLexemeOf(tk.value, tk.kind)
                    /\ tk.kind = "String" =>
                          Slice(lexer.code, tk.loc) = <<"\"">> \o tk.value \o <<"\"">>

\* C5: in a successful result every token's loc is the span of its own
\* lexeme in the source (quotes included for a String), and the spans of
\* consecutive tokens do not overlap.
C5_LocsAreLexemeSpans ==
    (Tokenized /\ lexed.ok) =>
        \A i \in 1..Len(lexed.tokens) :
            LET tk == lexed.tokens[i]
            IN  /\ tk.kind # "Eof" =>
                      /\ tk.loc.start < tk.loc.end
                      /\ tk.loc.end <= Len(lexer.code)
                      /\ Slice(lexer.code, tk.loc) =
                            IF tk.kind = "String" THEN <<"\"">> \o tk.value \o <<"\"">>
                            ELSE tk.value
                /\ i < Len(lexed.tokens) =>
                      tk.loc.end <= lexed.tokens[i + 1].loc.start

(***************************************************************************)
(* What a lexeme that starts with a digit run at offset s stands for.      *)
(***************************************************************************)
CharAt(code, i) == IF i < Len(code) THEN code[i + 1] ELSE NUL

\* End of input, whitespace or newline at offset i.
EndsNumber(code, i) == i >= Len(code) \/ code[i + 1] \in {" ", "\t", "\r", "\n"}

RECURSIVE RunEnd(_, _)
RunEnd(code, i) ==
    IF i < Len(code) /\ is_numeric(code[i + 1]) THEN RunEnd(code, i + 1) ELSE i

NumberClass(code, s) ==
    LET e == RunEnd(code, s)
        f == RunEnd(code, e + 1)
    IN  IF CharAt(code, e) # "."
        THEN [kinds |-> <<"Int">>, text |-> SubSeq(code, s + 1, e), err |-> "none"]
        ELSE IF CharAt(code, e + 1) = "."
        THEN [kinds |-> <<"Int", "DotDot">>, text |-> SubSeq(code, s + 1, e), err |-> "none"]
        ELSE IF EndsNumber(code, e + 1)
        THEN [kinds |-> <<"Real">>, text |-> SubSeq(code, s + 1, e + 1), err |-> "none"]
        ELSE IF ~is_numeric(CharAt(code, e + 1))
        THEN [kinds |-> <<>>, text |-> <<>>, err |-> "NonNumericDecimal"]
        ELSE IF EndsNumber(code, f)
        THEN [kinds |-> <<"Real">>, text |-> SubSeq(code, s + 1, f), err |-> "none"]
        ELSE [kinds |-> <<>>, text |-> <<>>, err |-> "NoSpaceAfterNumber"]

\* C6: the iteration of tokenize that starts on a digit stores the tokens
\* and raises the error that the characters after the digit run call for:
\* Int and DotDot before `..`, one Real `D.` or `D.F` before end of input,
\* whitespace or newline, NoSpaceAfterNumber and no token when anything else
\* follows `D.F`, NonNumericDecimal and no token when `D.` is followed by
\* another character, and Int(D) otherwise.
C6_NumberClasses ==
    [][(InLoop /\ OtherChar /\ is_numeric(AtChar)) =>
        LET want == NumberClass(lexer.code, lexer.current)
            had == Len(lexer.tokens)
            new == SubSeq(lexer'.tokens, had + 1, Len(lexer'.tokens))
        IN  /\ SubSeq(lexer'.tokens, 1, had) = lexer.tokens
            /\ [i \in 1..Len(new) |-> new[i].kind] = want.kinds
            /\ want.kinds # <<>> => new[1].value = want.text
            /\ want.err = "none" => lex_errors' = lex_errors
            /\ want.err # "none" =>
                  /\ Len(lex_errors') = Len(lex_errors) + 1
                  /\ SubSeq(lex_errors', 1, Len(lex_errors)) = lex_errors
                  /\ lex_errors'[Len(lex_errors')].err = want.err]_vars

\* `D.F` followed by another character: NoSpaceAfterNumber and no token.
C6_Witness ==
    /\ pc = "tokenized"
    /\ Len(lex_errors) = 1
    /\ lex_errors[1].err = "NoSpaceAfterNumber"
    /\ Len(lexer.tokens) = 1
    /\ is_numeric(lexer.code[1])

\* C7: a StringNeverClosed error is located at the end of the input,
\* whatever the unterminated string holds, and no other error follows it.
C7_UnclosedStringAtEof ==
    \A i \in 1..Len(lex_errors) :
        lex_errors[i].err = "StringNeverClosed" =>
            /\ lex_errors[i].loc.end = Len(lexer.code)
            /\ i = Len(lex_errors)

\* C2: parse returns the complete error list and no statement when an
\* error was recorded, and every parsed statement otherwise; both lists are
\* in source order.
C2_StmtsOrErrors ==
    /\ \A i \in 1..(Len(parse_errors) - 1) :
          parse_errors[i].loc.start <= parse_errors[i + 1].loc.start
    /\ \A i \in 1..(Len(stmts) - 1) : stmts[i].loc.end <= stmts[i + 1].loc.start
    /\ pc = "parsed" =>
          /\ parsed.ok <=> parse_errors = <<>>
          /\ parsed.ok => DOMAIN parsed = {"ok", "stmts"} /\ parsed.stmts = stmts
          /\ ~parsed.ok => DOMAIN parsed = {"ok", "errors"} /\ parsed.errors = parse_errors

\* Statements parsed before and after a failing one, and only errors returned.
C2_Witness ==
    /\ pc = "parsed"
    /\ ~parsed.ok
    /\ Len(stmts) >= 2
    /\ stmts[1].loc.start < parse_errors[1].loc.start
    /\ parse_errors[1].loc.start < stmts[Len(stmts)].loc.start

(***************************************************************************)
(* The tree a chain of operands and binary operators stands for.           *)
(***************************************************************************)
\* The tokens parse was given, without the closing Eof.
Body == SubSeq(parser.tokens, 1, Len(parser.tokens) - 1)

Level(kind) ==
    CASE kind \in {"EqualEqual", "BangEqual"} -> 1
      [] kind \in {"Less", "LessEqual", "Greater", "GreaterEqual"} -> 2
      [] kind \in {"Plus", "Minus"} -> 3
      [] kind \in {"Star", "Slash", "Modulo"} -> 4
      [] OTHER -> 0

IsOperand(tk) ==
    \/ tk.kind \in {"Identifier", "True", "False", "Null", "String"}
    \/ tk.kind = "Int" /\ parse_i64(tk.value).ok
    \/ tk.kind = "Real" /\ parse_f64(tk.value).ok

IsChain(ts) ==
    /\ Len(ts) % 2 = 1
    /\ \A i \in 1..Len(ts) :
          IF i % 2 = 1 THEN IsOperand(ts[i]) ELSE Level(ts[i].kind) > 0

Leaf(tk) ==
    CASE tk.kind = "Int" -> [node |-> "IntLiteral", value |-> parse_i64(tk.value).value]
      [] tk.kind = "Real" -> [node |-> "RealLiteral", value |-> parse_f64(tk.value).value]
      [] tk.kind = "String" -> [node |-> "StrLiteral", value |-> tk.value]
      [] OTHER -> [node |-> "Identifier", name |-> tk.value]

\* Split at the last operator of the lowest level present.
RECURSIVE Ladder(_)
Ladder(ts) ==
    IF Len(ts) = 1 THEN Leaf(ts[1])
    ELSE LET ops == {i \in 1..Len(ts) : i % 2 = 0}
             low == CHOOSE l \in 1..4 :
                        /\ \E i \in ops : Level(ts[i].kind) = l
                        /\ \A i \in ops : Level(ts[i].kind) >= l
             k == CHOOSE i \in ops :
                      /\ Level(ts[i].kind) = low
                      /\ \A j \in ops : Level(ts[j].kind) = low => j <= i
         IN  [node |-> "Binary", operator |-> ts[k].value,
              left |-> Ladder(SubSeq(ts, 1, k - 1)),
              right |-> Ladder(SubSeq(ts, k + 1, Len(ts)))]

\* The node e is the tree x, locations aside.
RECURSIVE Matches(_, _)
Matches(e, x) ==
    /\ e.node = x.node
    /\ CASE x.node = "Binary" ->
              /\ e.operator = x.operator
              /\ Matches(e.left, x.left)
              /\ Matches(e.right, x.right)
         [] x.node = "Unary" -> e.operator = x.operator /\ Matches(e.right, x.right)
         [] x.node = "Grouping" -> Matches(e.expr, x.expr)
         [] x.node = "Assign" -> e.name = x.name /\ Matches(e.value, x.value)
         [] x.node = "Identifier" -> e.name = x.name
         [] OTHER -> e.value = x.value

\* C8: a well-formed chain of operands and binary operators parses to one
\* expression statement whose tree is the one the ladder equality <
\* comparison < term < factor dictates, equal levels folding to the left.
C8_PrecedenceLadder ==
    (pc = "parsed" /\ IsChain(Body)) =>
        /\ parsed.ok
        /\ Len(parsed.stmts) = 1
        /\ parsed.stmts[1].stmt = "Expr"
        /\ Matches(parsed.stmts[1].expr, Ladder(Body))

\* Four operands: the top operator has a Binary on either side.
C8_Witness ==
    /\ pc = "parsed"
    /\ IsChain(Body)
    /\ Len(Body) = 7
    /\ parsed.ok
    /\ parsed.stmts[1].expr.node = "Binary"
    /\ parsed.stmts[1].expr.left.node = "Binary"
    /\ parsed.stmts[1].expr.right.node = "Binary"

(***************************************************************************)
(* target = ... = target = value                                           *)
(***************************************************************************)
Targets == [i \in 1..((Len(input.parts) - 1) \div 2) |-> input.parts[2 * i - 1]]

IdentifierWords == {<<"a">>, <<"b">>}

ValueTree(v) ==
    IF v = <<"3">> THEN [node |-> "IntLiteral", value |-> 3]
    ELSE [node |-> "Binary", operator |-> <<"*">>,
          left |-> [node |-> "Identifier", name |-> <<"c">>],
          right |-> [node |-> "IntLiteral", value |-> 2]]

RECURSIVE NestedAssign(_, _)
NestedAssign(targets, v) ==
    IF targets = <<>> THEN v
    ELSE [node |-> "Assign", name |-> Head(targets),
          value |-> NestedAssign(Tail(targets), v)]

\* C9: with identifier targets the statement parses to the right-nested
\* Assign; with any other target it fails with InvalidAssignTarget alone.
C9_AssignRightAssoc ==
    (pc = "parsed" /\ input.family = "assign") =>
        IF \A i \in 1..Len(Targets) : Targets[i] \in IdentifierWords
        THEN /\ parsed.ok
             /\ Len(parsed.stmts) = 1
             /\ parsed.stmts[1].stmt = "Expr"
             /\ Matches(parsed.stmts[1].expr,
                        NestedAssign(Targets, ValueTree(input.parts[Len(input.parts)])))
        ELSE /\ ~parsed.ok
             /\ Len(parsed.errors) = 1
             /\ parsed.errors[1].err = "InvalidAssignTarget"

\* a = b = value was parsed.
C9_Witness ==
    /\ pc = "parsed"
    /\ input.family = "assign"
    /\ Len(Targets) = 2
    /\ parsed.ok
    /\ parsed.stmts[1].expr.node = "Assign"
    /\ parsed.stmts[1].expr.value.node = "Assign"

(***************************************************************************)
(* Lines of malformed `var` declarations                                   *)
(***************************************************************************)
RECURSIVE LineStart(_, _)
LineStart(lines, i) ==
    IF i = 1 THEN 0 ELSE LineStart(lines, i - 1) + Len(lines[i - 1]) + 1

VarDeclErrs == {"VarDeclNoName", "WrongRhsVarDecl", "NoExprAssign", "IncorrectVarDeclVal"}

\* C10: k malformed `var` lines give exactly k errors in one parse call, the
\* i-th error starting on the i-th line.
C10_OneErrorPerVarLine ==
    (pc = "parsed" /\ input.family = "varlines") =>
        /\ ~parsed.ok
        /\ Len(parsed.errors) = Len(input.parts)
        /\ \A i \in 1..Len(input.parts) :
              /\ i <= Len(parsed.errors)
              /\ parsed.errors[i].loc.start = LineStart(input.parts, i)
              /\ parsed.errors[i].err \in VarDeclErrs

\* Two lines, two errors of different kinds.
C10_Witness ==
    /\ pc = "parsed"
    /\ input.family = "varlines"
    /\ Len(input.parts) = 2
    /\ Len(parse_errors) = 2
    /\ parse_errors[1].err = "VarDeclNoName"
    /\ parse_errors[2].err = "IncorrectVarDeclVal"

(***************************************************************************)
(* The error of one failing `var` declaration                              *)
(***************************************************************************)
\* The declaration's line, and its right-hand side when it has one.
Decl == input.parts[1]

RhsOf(d) == CHOOSE rhs \in RhsEndsEarly \cup RhsEndsInGroup \cup DOMAIN RhsOtherErr :
                DeclWithRhs(rhs) = d

OneVarDeclError(err) ==
    /\ ~parsed.ok
    /\ Len(parsed.errors) = 1
    /\ parsed.errors[1].err = err

\* The cases of the declaration that are the same in both readings.
VarDeclErrOutsideGroups ==
    IF Decl \in NoNameDecls THEN OneVarDeclError("VarDeclNoName")
    ELSE IF Decl \in WrongRhsDecls THEN OneVarDeclError("WrongRhsVarDecl")
    ELSE IF RhsOf(Decl) \in RhsEndsEarly THEN OneVarDeclError("NoExprAssign")
    ELSE IF RhsOf(Decl) \in DOMAIN RhsOtherErr
    THEN /\ OneVarDeclError("IncorrectVarDeclVal")
         /\ parsed.errors[1].arg[1] = RhsOtherErr[RhsOf(Decl)]
    ELSE TRUE

IsGroupDecl ==
    Decl \notin NoNameDecls \cup WrongRhsDecls /\ RhsOf(Decl) \in RhsEndsInGroup

\* C11 (as stated): a right-hand side that meets the end of the line or of
\* the file gives NoExprAssign anywhere, inside an open parenthesis too.
C11_EndInGroupIsNoExprAssign ==
    (pc = "parsed" /\ input.family = "vardecl") =>
        /\ VarDeclErrOutsideGroups
        /\ IsGroupDecl => OneVarDeclError("NoExprAssign")

\* C11 (amended): no name gives VarDeclNoName; a token other than `=`,
\* NewLine or Eof after the name gives WrongRhsVarDecl; a right-hand side
\* that meets the end of the line or file outside any parenthesis gives
\* NoExprAssign; every other failure of the right-hand side, an end of line
\* or file inside an open parenthesis included (ParenNeverClosed), gives
\* IncorrectVarDeclVal carrying the inner error.
C11_VarDeclErrorKinds ==
    (pc = "parsed" /\ input.family = "vardecl") =>
        /\ VarDeclErrOutsideGroups
        /\ IsGroupDecl =>
              /\ OneVarDeclError("IncorrectVarDeclVal")
              /\ parsed.errors[1].arg = <<"ParenNeverClosed", NoValue>>

\* `var c = (1 +` before a newline failed with the wrapped ParenNeverClosed.
C11_Witness ==
    /\ pc = "parsed"
    /\ input.family = "vardecl"
    /\ Len(input.parts) = 2
    /\ IsGroupDecl
    /\ RhsOf(Decl) = <<"(", "1", " ", "+">>
    /\ parsed.errors[1].err = "IncorrectVarDeclVal"

\* C12: a block of well-formed statements that reaches the end of the file
\* without its closing brace, nested in another block or not, makes parse
\* return exactly one error, UnclosedBlock.
C12_UnclosedBlock ==
    (pc = "parsed" /\ input.family = "block" /\ input.parts[1] \in UnclosedBlocks) =>
        /\ ~parsed.ok
        /\ Len(parsed.errors) = 1
        /\ parsed.errors[1].err = "UnclosedBlock"

\* `{ { a`: the inner block is the one that is never closed.
C12_Witness ==
    /\ pc = "parsed"
    /\ input.parts = <<<<"{", " ", "{", " ", "a">>>>
    /\ Len(parse_errors) = 1
    /\ parse_errors[1].err = "UnclosedBlock"
    /\ stmts = <<>>

\* C13: k lines that each start with `+`, `*`, `/` or `%` give exactly k
\* errors in one parse call, all MissingLhsInBinop, the i-th on the i-th
\* line, whatever follows the operator on its line.
C13_MissingLhsPerLine ==
    (pc = "parsed" /\ input.family = "lhsless") =>
        /\ ~parsed.ok
        /\ Len(parsed.errors) = Len(input.parts)
        /\ \A i \in 1..Len(input.parts) :
              /\ i <= Len(parsed.errors)
              /\ parsed.errors[i].err = "MissingLhsInBinop"
              /\ parsed.errors[i].loc.start = LineStart(input.parts, i)

\* Two lines, `/ 1 = 2` first, gave two errors.
C13_Witness ==
    /\ pc = "parsed"
    /\ input.family = "lhsless"
    /\ Len(input.parts) = 2
    /\ input.parts[1] = <<"/", " ", "1", " ", "=", " ", "2">>
    /\ Len(parse_errors) = 2
    /\ parse_errors[2].err = "MissingLhsInBinop"

\* C14: a group whose inner expression is well formed and is not followed
\* by `)` fails with ParenNeverClosed, and so does a group in which the
\* line or the file ends where an operand is expected, at any depth of
\* groups: no UnexpectedEol or UnexpectedEof is reported.
C14_ParenNeverClosed ==
    (pc = "parsed" /\ input.family = "group") =>
        /\ ~parsed.ok
        /\ parsed.errors[1].err = "ParenNeverClosed"
        /\ \A i \in 1..Len(parsed.errors) :
              parsed.errors[i].err \notin {"UnexpectedEol", "UnexpectedEof"}

\* `((` then a newline: the inner group met the end of the line.
C14_Witness ==
    /\ pc = "parsed"
    /\ input.parts = <<<<"(", "(", "\n">>>>
    /\ Len(parse_errors) = 1
    /\ parse_errors[1].err = "ParenNeverClosed"
    /\ Parser_prev(parser).kind = "NewLine"

\* C15: a tokenize call returns what the earlier call on the same Lexer
\* returned for the same source, and a parse call returns what the earlier
\* call on the same Parser returned for the same tokens.
C15_SameInputSameResult ==
    [][/\ (pc = "tokenize" /\ pc' = "tokenized" /\ "ok" \in DOMAIN lexed) =>
              lexed' = lexed
       /\ (pc = "parse" /\ pc' = "parsed" /\ "ok" \in DOMAIN parsed) =>
              parsed' = parsed]_vars

(***************************************************************************)
(* Every Loc of a pass                                                     *)
(***************************************************************************)
RECURSIVE ExprLocs(_)
ExprLocs(e) ==
    {e.loc} \cup
        CASE e.node = "Binary" -> ExprLocs(e.left) \cup ExprLocs(e.right)
          [] e.node = "Unary" -> ExprLocs(e.right)
          [] e.node = "Grouping" -> ExprLocs(e.expr)
          [] e.node = "Assign" -> ExprLocs(e.value)
          [] OTHER -> {}

RECURSIVE StmtLocs(_)
StmtLocs(st) ==
    {st.loc} \cup
        CASE st.stmt \in {"Expr", "Print"} -> ExprLocs(st.expr)
          [] st.stmt = "VarDecl" ->
                IF "node" \in DOMAIN st.value THEN ExprLocs(st.value) ELSE {}
          [] OTHER -> UNION {StmtLocs(st.stmts[i]) : i \in DOMAIN st.stmts}

AllLocs ==
    {lexer.tokens[i].loc : i \in DOMAIN lexer.tokens}
    \cup {lex_errors[i].loc : i \in DOMAIN lex_errors}
    \cup UNION {StmtLocs(stmts[i]) : i \in DOMAIN stmts}
    \cup {parse_errors[i].loc : i \in DOMAIN parse_errors}

\* C16: every Loc of one pass of a fresh Lexer and a fresh Parser has
\* start <= end: the locs of tokens, of lexical errors, of the nodes of the
\* tree and of parse errors.
C16_StartBeforeEnd == \A loc \in AllLocs : loc.start <= loc.end

\* A parse error raised in an open block after a newline skip: the
\* statement start is the start of the token under the cursor.
C16_Witness ==
    /\ pc = "parsed"
    /\ parse_errors # <<>>
    /\ parse_errors[1].err = "UnclosedBlock"
    /\ parse_errors[1].loc.start = parse_errors[1].loc.end
    /\ parse_errors[1].loc.start = Len(lexer.code)

(***************************************************************************)
(* Trees, written without locations.                                       *)
(***************************************************************************)
TBin(op, l, r) == [node |-> "Binary", operator |-> op, left |-> l, right |-> r]

TUn(op, r) == [node |-> "Unary", operator |-> op, right |-> r]

TGrp(e) == [node |-> "Grouping", expr |-> e]

TId(n) == [node |-> "Identifier", name |-> n]

TInt(v) == [node |-> "IntLiteral", value |-> v]

UnaryTree ==
    (<<"-", "2", " ", "*", " ", "3">> :> TBin(<<"*">>, TUn(<<"-">>, TInt(2)), TInt(3)))
    @@ (<<"!", "a">> :> TUn(<<"!">>, TId(<<"a">>)))
    @@ (<<"-", "a", " ", "+", " ", "b">> :> TBin(<<"+">>, TUn(<<"-">>, TId(<<"a">>)), TId(<<"b">>)))
    @@ (<<"!", "a", " ", "=", "=", " ", "b">> :>
            TBin(<<"=", "=">>, TUn(<<"!">>, TId(<<"a">>)), TId(<<"b">>)))
    @@ (<<"-", "(", "2", " ", "*", " ", "3", ")">> :>
            TUn(<<"-">>, TGrp(TBin(<<"*">>, TInt(2), TInt(3)))))
    @@ (<<"2", " ", "*", " ", "-", "3">> :> TBin(<<"*">>, TInt(2), TUn(<<"-">>, TInt(3))))
    @@ (<<"a", " ", "-", " ", "-", "b">> :>
            TBin(<<"-">>, TId(<<"a">>), TUn(<<"-">>, TId(<<"b">>))))

\* C17: a leading `!` or `-` wraps the primary that follows it and nothing
\* more, and a unary operator directly followed by another unary operator
\* is rejected with an error.
C17_UnaryWrapsPrimary ==
    (pc = "parsed" /\ input.family = "unary") =>
        IF input.parts[1] \in SingleUnary
        THEN /\ parsed.ok
             /\ Len(parsed.stmts) = 1
             /\ parsed.stmts[1].stmt = "Expr"
             /\ Matches(parsed.stmts[1].expr, UnaryTree[input.parts[1]])
        ELSE /\ ~parsed.ok
             /\ stmts = <<>>

\* `-2 * 3` was parsed to a Binary whose left operand is the Unary.
C17_Witness ==
    /\ pc = "parsed"
    /\ input.parts = <<<<"-", "2", " ", "*", " ", "3">>>>
    /\ parsed.ok
    /\ parsed.stmts[1].expr.node = "Binary"
    /\ parsed.stmts[1].expr.left.node = "Unary"

\* The cursor is on a NewLine, on Eof, or just after a NewLine.
AtLineBoundary(p) ==
    \/ Parser_at(p).kind \in {"NewLine", "Eof"}
    \/ (p.current > 0 /\ Parser_prev(p).kind = "NewLine")

ErrorRecorded == pc = "parse" /\ Len(parse_errors') = Len(parse_errors) + 1

\* C18: each time parse records an error, the cursor it returns to the
\* top-level loop with is on a NewLine, on Eof, or just after a NewLine,
\* whatever the kind of the error.
C18_ErrorLeavesLineBoundary ==
    [][ErrorRecorded => AtLineBoundary(parser')]_vars

\* The cursors stay within the source and the tokens.
CursorsInRange ==
    /\ lexer.current <= Len(lexer.code)
    /\ pc \in {"parse", "parsed"} => parser.current < Len(parser.tokens)

\* C19: every iteration of tokenize's loop leaves the scan pointer strictly
\* further than it found it and within the source, every iteration of
\* parse's loop consumes at least one token and stays within the tokens,
\* and the step taken at the end of the source or on Eof is the return:
\* both loops end.
C19_Terminates ==
    /\ []CursorsInRange
    /\ [][/\ (pc = "tokenize" /\ pc' = "tokenize") => lexer'.current > lexer.current
          /\ (pc = "tokenize" /\ Lexer_eof(lexer)) => pc' = "tokenized"
          /\ (pc = "parse" /\ pc' = "parse") => parser'.current > parser.current
          /\ (pc = "parse" /\ Parser_eof(parser)) => pc' = "parsed"]_vars

\* An error rewound the scan pointer and the loop of tokenize goes on.
C19_Witness ==
    /\ pc = "tokenize"
    /\ lex_errors # <<>>
    /\ lexer.current < Len(lexer.code)
    /\ lexer.current = lex_errors[Len(lex_errors)].loc.end
    /\ lexer.code[lexer.current] # "\""

(***************************************************************************)
(* The locs of a statement that starts on token f, from the tokens alone.  *)
(***************************************************************************)
TokStart(i) == parser.tokens[i].loc.start

RECURSIVE SkipNL(_)
SkipNL(i) == IF parser.tokens[i].kind = "NewLine" THEN SkipNL(i + 1) ELSE i

\* The number of tokens an expression was built from.
RECURSIVE Size(_)
Size(e) ==
    CASE e.node = "Binary" -> Size(e.left) + 1 + Size(e.right)
      [] e.node = "Unary" -> 1 + Size(e.right)
      [] e.node = "Grouping" -> 2 + Size(e.expr)
      [] e.node = "Assign" -> 2 + Size(e.value)
      [] OTHER -> 1

\* Every node of e, which starts on token f, spans from s to the start of
\* the token after its last one.
RECURSIVE ExprLocsAt(_, _, _)
ExprLocsAt(e, f, s) ==
    /\ e.loc = Loc_new(s, TokStart(f + Size(e)))
    /\ CASE e.node = "Binary" ->
              /\ ExprLocsAt(e.left, f, s)
              /\ ExprLocsAt(e.right, f + Size(e.left) + 1, s)
         [] e.node = "Unary" -> ExprLocsAt(e.right, f + 1, s)
         [] e.node = "Grouping" -> ExprLocsAt(e.expr, f + 1, s)
         [] e.node = "Assign" -> ExprLocsAt(e.value, f + 2, s)
         [] OTHER -> TRUE

\* The token after a statement that starts on token f; inside a block a
\* newline skip comes before every statement and before the closing brace.
RECURSIVE StmtEnd(_, _)
RECURSIVE StmtsEnd(_, _)
StmtEnd(st, f) ==
    CASE st.stmt = "Expr" -> f + Size(st.expr)
      [] st.stmt = "Print" -> f + 1 + Size(st.expr)
      [] st.stmt = "VarDecl" ->
            IF "node" \in DOMAIN st.value THEN f + 3 + Size(st.value) ELSE f + 2
      [] OTHER -> StmtsEnd(st.stmts, SkipNL(f + 1)) + 1

StmtsEnd(ss, g) ==
    IF ss = <<>> THEN g ELSE StmtsEnd(Tail(ss), SkipNL(StmtEnd(Head(ss), g)))

RECURSIVE StmtLocsAt(_, _)
RECURSIVE StmtsLocsAt(_, _)
StmtLocsAt(st, f) ==
    CASE st.stmt = "Expr" ->
            /\ st.loc = Loc_new(TokStart(f), TokStart(StmtEnd(st, f)))
            /\ ExprLocsAt(st.expr, f, TokStart(f))
      [] st.stmt = "Print" ->
            /\ st.loc = Loc_new(TokStart(f), TokStart(StmtEnd(st, f)))
            /\ ExprLocsAt(st.expr, f + 1, TokStart(f))
      [] st.stmt = "VarDecl" ->
            /\ st.loc = Loc_new(TokStart(f), TokStart(StmtEnd(st, f)))
            /\ "node" \in DOMAIN st.value => ExprLocsAt(st.value, f + 3, TokStart(f))
      [] OTHER ->
            /\ parser.tokens[StmtEnd(st, f) - 1].kind = "CloseBrace"
            /\ st.loc = Loc_new(TokStart(StmtEnd(st, f) - 1), TokStart(StmtEnd(st, f)))
            /\ StmtsLocsAt(st.stmts, SkipNL(f + 1))

StmtsLocsAt(ss, g) ==
    \/ ss = <<>>
    \/ /\ StmtLocsAt(Head(ss), g)
       /\ StmtsLocsAt(Tail(ss), SkipNL(StmtEnd(Head(ss), g)))

\* C20: every loc the parser attaches to a node or an error is Loc(s, e),
\* s the start of the token under the cursor at the latest newline skip
\* (before each statement, at top level or in a block, and before a closing
\* brace) and e the start of the token under the cursor when the node or
\* error is built; all nodes of one expression, print or var statement
\* share the start of its first token.
C20_LocIsSkipToCursor ==
    [][(pc = "parse" /\ pc' = "parse") =>
        LET f == skip_new_lines_loop(parser).current + 1
        IN  IF Len(stmts') > Len(stmts)
            THEN /\ StmtLocsAt(stmts'[Len(stmts')], f)
                 /\ StmtEnd(stmts'[Len(stmts')], f) = parser'.current + 1
            ELSE LET e == parse_errors'[Len(parse_errors')]
                 IN  /\ e.loc = Loc_new(parser'.start_loc, TokStart(parser'.current + 1))
                     /\ \E j \in f..(parser'.current + 1) : parser'.start_loc = TokStart(j)
                     /\ parser.tokens[f].kind # "OpenBrace" =>
                           parser'.start_loc = TokStart(f)]_vars

\* A block in a block was parsed: the inner statement starts on its own
\* first token and each block on its closing brace.
C20_Witness ==
    /\ pc = "parsed"
    /\ input.parts = <<<<"{", " ", "{", " ", "a", " ", "}", " ", "}">>>>
    /\ parsed.ok
    /\ parsed.stmts[1].stmts[1].stmts[1].loc = Loc_new(4, 6)
    /\ parsed.stmts[1].stmts[1].loc = Loc_new(6, 8)
    /\ parsed.stmts[1].loc = Loc_new(8, 9)

\* C21: a closed block that holds one malformed statement makes parse
\* report the error of that statement and no other: the statements after
\* it and the closing brace add nothing.
C21_BlockErrorAlone ==
    (pc = "parsed" /\ input.family = "blockerr") =>
        /\ ~parsed.ok
        /\ Len(parsed.errors) = 1

\* Every statement of ss, the first starting on token g, is followed at once
\* by a NewLine or the Eof token.
RECURSIVE EachTerminated(_, _)
EachTerminated(ss, g) ==
    \/ ss = <<>>
    \/ /\ parser.tokens[StmtEnd(Head(ss), g)].kind \in {"NewLine", "Eof"}
       /\ EachTerminated(Tail(ss), SkipNL(StmtEnd(Head(ss), g)))

\* C22: parse returns a statement list only if every top-level statement is
\* followed at once by a NewLine or the Eof token; two statements on one
\* line are never both accepted.
C22_NewLineTerminates ==
    (pc = "parsed" /\ parsed.ok) => EachTerminated(parsed.stmts, SkipNL(1))

\* The cursor of p is on a token and no Eof token lies before it.
CursorOnToken(p) ==
    /\ p.current \in 0..(Len(p.tokens) - 1)
    /\ Parser_at(p) \in {p.tokens[i] : i \in 1..Len(p.tokens)}
    /\ \A i \in 1..p.current : p.tokens[i].kind # "Eof"

\* C23: for a fresh parser on tokens that end with their only Eof, the
\* cursor stays on a token and never leaves the Eof token behind, at every
\* point between two statements and after each move out of such a point
\* (a newline skip, an eat, a synchronisation); an eat that succeeds leaves
\* a previous token, and so does every turn of the statement loop, on
\* well-formed and malformed input alike.
C23_CursorStaysInRange ==
    /\ [](pc \in {"parse", "parsed"} =>
            /\ parser.tokens[Len(parser.tokens)].kind = "Eof"
            /\ CursorOnToken(parser)
            /\ CursorOnToken(skip_new_lines(parser))
            /\ CursorOnToken(synchronize_loop(parser))
            /\ Parser_eof(parser) => ~Parser_eat(parser).ok
            /\ CursorOnToken(Parser_eat(parser).p)
            /\ Parser_eat(parser).ok => Parser_eat(parser).p.current >= 1)
    /\ [][(pc = "parse" /\ pc' = "parse") =>
            /\ parser'.current >= 1
            /\ parser'.current >= parser.current]_vars

\* An expression ran into the end of the tokens: the eat was refused and the
\* cursor rests on the Eof token, the last one, with an error recorded.
C23_Witness ==
    /\ pc = "parsed"
    /\ ~parsed.ok
    /\ \E i \in 1..Len(parsed.errors) : parsed.errors[i].err = "UnexpectedEof"
    /\ Len(parser.tokens) >= 3
    /\ parser.current = Len(parser.tokens) - 1
    /\ Parser_eof(parser)

====
